---- MODULE Spec2Model ----
(***************************************************************************)
(* Kruskal's minimum spanning tree over a union-find structure, as         *)
(* implemented in src/Kruskal_algo.py (class UnionFind, kruskal_mst).      *)
(*                                                                         *)
(* Python lists are modelled as functions with domain 0..len-1, so that    *)
(* list indexing (including Python's negative indices and IndexError) is   *)
(* modelled by what it does.  The edge list is a TLA+ sequence of          *)
(* <<weight, u, v>> triples.                                               *)
(***************************************************************************)
EXTENDS Integers, Sequences, FiniteSets, TLC

VARIABLES
    pc,            \* position in kruskal_mst, or "dsu" for a bare UnionFind
    n,             \* vertex count / UnionFind size
    edges,         \* the caller's edge list (sorted in place by kruskal_mst)
    i,             \* number of edges of the for loop already consumed
    T,             \* accepted edges
    total_weight,  \* accumulated weight
    parent,        \* uf.parent
    rank,          \* uf.rank
    result,        \* the returned pair <<T, total_weight>>; <<>> before return
    last,          \* the most recent UnionFind call: op, arguments, return value
    conn           \* history: class of each element under the union calls made so far

vars == <<pc, n, edges, i, T, total_weight, parent, rank, result, last, conn>>

----------------------------------------------------------------------------
(* Bounds of the model. *)

MaxN == 3
MaxEdges == 3
MaxSize == 4
MaxBadN == 1
MaxBadEdges == 2

\* edge weights: a negative one and zero, so that ties and sign both occur
Weights == {-1, 0}

----------------------------------------------------------------------------
(* Python list indexing. *)

ListLen(lst) == Cardinality(DOMAIN lst)

\* lst[k] raises IndexError unless -len <= k < len
InRange(lst, k) == k < ListLen(lst) /\ k >= 0 - ListLen(lst)

\* the position a (possibly negative) index denotes
Pos(lst, k) == IF k >= 0 THEN k ELSE k + ListLen(lst)

----------------------------------------------------------------------------
(* class UnionFind *)

NewParent(size) == [k \in 0 .. size - 1 |-> k]

NewRank(size) == [k \in 0 .. size - 1 |-> 0]

\* find without path compression (mutant of FindRes)
RECURSIVE FindNoCompress(_, _)
FindNoCompress(par, node) ==
    IF ~InRange(par, node)
    THEN [err |-> TRUE, parent |-> par, root |-> node]
    ELSE IF par[Pos(par, node)] # node
         THEN LET sub == FindNoCompress(par, par[Pos(par, node)])
              IN  [err |-> sub.err, parent |-> par, root |-> sub.root]
         ELSE [err |-> FALSE, parent |-> par, root |-> par[Pos(par, node)]]

\* find(node): the root returned and the parent list left behind;
\* err when a list access raises IndexError
RECURSIVE FindRes(_, _)
FindRes(par, node) ==
    IF ~InRange(par, node)
    THEN [err |-> TRUE, parent |-> par, root |-> node]
    ELSE IF par[Pos(par, node)] # node
         THEN LET sub == FindRes(par, par[Pos(par, node)])
              IN  IF sub.err
                  THEN [err |-> TRUE, parent |-> sub.parent, root |-> node]
                  ELSE [err |-> FALSE,
                        parent |-> [sub.parent EXCEPT ![Pos(par, node)] = sub.root],
                        root |-> sub.root]
         ELSE [err |-> FALSE, parent |-> par, root |-> par[Pos(par, node)]]

\* union that re-parents b itself instead of b's root (mutant of UnionRes)
UnionLinkNode(par, rk, a, b) ==
    LET fa == FindRes(par, a)
        fb == FindRes(fa.parent, b)
    IN  IF fa.err \/ fb.err
        THEN [err |-> TRUE, parent |-> par, rank |-> rk, ret |-> FALSE]
        ELSE IF fa.root = fb.root
             THEN [err |-> FALSE, parent |-> fb.parent, rank |-> rk, ret |-> FALSE]
             ELSE [err |-> FALSE,
                   parent |-> [fb.parent EXCEPT ![Pos(par, b)] = fa.root],
                   rank |-> rk, ret |-> TRUE]

\* union without the "already connected" test (mutant of UnionRes)
UnionNoCheck(par, rk, a, b) ==
    LET fa == FindRes(par, a)
        fb == FindRes(fa.parent, b)
    IN  IF fa.err \/ fb.err
        THEN [err |-> TRUE, parent |-> par, rank |-> rk, ret |-> FALSE]
        ELSE IF rk[fa.root] < rk[fb.root]
             THEN [err |-> FALSE,
                   parent |-> [fb.parent EXCEPT ![fa.root] = fb.root],
                   rank |-> rk, ret |-> TRUE]
             ELSE IF rk[fa.root] > rk[fb.root]
                  THEN [err |-> FALSE,
                        parent |-> [fb.parent EXCEPT ![fb.root] = fa.root],
                        rank |-> rk, ret |-> TRUE]
                  ELSE [err |-> FALSE,
                        parent |-> [fb.parent EXCEPT ![fb.root] = fa.root],
                        rank |-> [rk EXCEPT ![fa.root] = rk[fa.root] + 1],
                        ret |-> TRUE]

\* union that leaves the structure alone (mutant of UnionRes)
UnionNoMerge(par, rk, a, b) ==
    LET fa == FindRes(par, a)
        fb == FindRes(fa.parent, b)
    IN  IF fa.err \/ fb.err
        THEN [err |-> TRUE, parent |-> par, rank |-> rk, ret |-> FALSE]
        ELSE [err |-> FALSE, parent |-> fb.parent, rank |-> rk,
              ret |-> fa.root # fb.root]

\* union(a, b): the lists left behind and the boolean returned
UnionRes(par, rk, a, b) ==
    LET fa == FindRes(par, a)
        fb == IF fa.err THEN fa ELSE FindRes(fa.parent, b)
    IN  IF fa.err \/ fb.err
        THEN [err |-> TRUE, parent |-> fb.parent, rank |-> rk, ret |-> FALSE]
        ELSE IF fa.root = fb.root
             THEN [err |-> FALSE, parent |-> fb.parent, rank |-> rk, ret |-> FALSE]
             ELSE IF rk[fa.root] < rk[fb.root]
                  THEN [err |-> FALSE,
                        parent |-> [fb.parent EXCEPT ![fa.root] = fb.root],
                        rank |-> rk, ret |-> TRUE]
                  ELSE IF rk[fa.root] > rk[fb.root]
                       THEN [err |-> FALSE,
                             parent |-> [fb.parent EXCEPT ![fb.root] = fa.root],
                             rank |-> rk, ret |-> TRUE]
                       ELSE [err |-> FALSE,
                             parent |-> [fb.parent EXCEPT ![fb.root] = fa.root],
                             rank |-> [rk EXCEPT ![fa.root] = rk[fa.root] + 1],
                             ret |-> TRUE]

----------------------------------------------------------------------------
(* kruskal_mst *)

\* no sorting at all (mutant of SortByWeight)
SortNone(es) == es

\* place e behind every element of the sorted list s whose weight is <= e's
RECURSIVE InsertStable(_, _)
InsertStable(s, e) ==
    IF s = <<>> THEN <<e>>
    ELSE IF s[Len(s)][1] <= e[1]
         THEN Append(s, e)
         ELSE Append(InsertStable(SubSeq(s, 1, Len(s) - 1), e), s[Len(s)])

RECURSIVE SortPrefix(_, _)
SortPrefix(es, k) ==
    IF k = 0 THEN <<>> ELSE InsertStable(SortPrefix(es, k - 1), es[k])

\* edges.sort(key=lambda x: x[0]): ascending by weight, stable
SortByWeight(es) == SortPrefix(es, Len(es))

\* accept every edge (mutant of NoCycle)
AcceptAll(ru, rv) == TRUE

\* the acceptance test inverted (mutant of NoCycle)
AcceptSameSet(ru, rv) == ru = rv

\* the acceptance test uf.find(u) != uf.find(v)
NoCycle(ru, rv) == ru # rv

\* forget the weight (mutant of Accumulate)
AccumulateNothing(tw, weight) == tw

\* total_weight += weight
Accumulate(tw, weight) == tw + weight

\* never stop early (mutant of Complete)
NeverComplete(tree, cnt) == FALSE

\* the early-termination test len(T) == n - 1
Complete(tree, cnt) == Len(tree) = cnt - 1

NoCall == [op |-> "none", a |-> 0, b |-> 0, ret |-> FALSE]

\* lines 50-56: sort the caller's list, empty T, zero weight, fresh UnionFind
Setup ==
    /\ pc = "start"
    /\ edges' = SortByWeight(edges)
    /\ T' = <<>>
    /\ total_weight' = 0
    /\ parent' = NewParent(n)
    /\ rank' = NewRank(n)
    /\ i' = 0
    /\ pc' = "loop"
    /\ UNCHANGED <<n, result, last, conn>>

\* one iteration of the for loop, lines 58-65: find(u), find(v), and for an
\* accepted edge the append, the sum, union(u, v) and the early-exit test
\* (fu, fv and un name the results of the three calls)
Examine ==
    /\ pc = "loop"
    /\ i < Len(edges)
    /\ \E fu \in {FindRes(parent, edges[i + 1][2])} :
       \E fv \in {IF fu.err THEN fu ELSE FindRes(fu.parent, edges[i + 1][3])} :
       LET e == edges[i + 1]
           weight == e[1]
           u == e[2]
           v == e[3]
       IN  IF fu.err \/ fv.err
           THEN /\ pc' = "IndexError"
                /\ parent' = fv.parent
                /\ last' = [op |-> "find", a |-> IF fu.err THEN u ELSE v,
                            b |-> 0, ret |-> "IndexError"]
                /\ UNCHANGED <<i, T, total_weight, rank, result>>
           ELSE IF NoCycle(fu.root, fv.root)
                THEN \E un \in {UnionRes(fv.parent, rank, u, v)} :
                     LET T2 == Append(T, e)
                         tw2 == Accumulate(total_weight, weight)
                     IN  /\ T' = T2
                         /\ total_weight' = tw2
                         /\ parent' = un.parent
                         /\ rank' = un.rank
                         /\ last' = [op |-> "union", a |-> u, b |-> v,
                                     ret |-> IF un.err THEN "IndexError" ELSE un.ret]
                         /\ i' = i + 1
                         /\ IF un.err
                            THEN pc' = "IndexError" /\ result' = result
                            ELSE IF Complete(T2, n)
                                 THEN pc' = "return_early" /\ result' = <<T2, tw2>>
                                 ELSE pc' = "loop" /\ result' = result
                ELSE /\ parent' = fv.parent
                     /\ last' = [op |-> "find", a |-> v, b |-> 0, ret |-> fv.root]
                     /\ i' = i + 1
                     /\ pc' = "loop"
                     /\ UNCHANGED <<T, total_weight, rank, result>>
    /\ UNCHANGED <<n, edges, conn>>

\* line 68: the edge list is exhausted
ReturnEnd ==
    /\ pc = "loop"
    /\ i = Len(edges)
    /\ pc' = "return_end"
    /\ result' = <<T, total_weight>>
    /\ UNCHANGED <<n, edges, i, T, total_weight, parent, rank, last, conn>>

Next == Setup \/ Examine \/ ReturnEnd

Triples(lo, hi) == Weights \X (lo .. hi) \X (lo .. hi)

InitWith(cnt, es) ==
    /\ pc = "start"
    /\ n = cnt
    /\ edges = es
    /\ i = 0
    /\ T = <<>>
    /\ total_weight = 0
    /\ parent = <<>>
    /\ rank = <<>>
    /\ result = <<>>
    /\ last = NoCall
    /\ conn = <<>>

\* calls that keep the contract: every endpoint in [0, n)
Init == \E cnt \in 0 .. MaxN : \E k \in 0 .. MaxEdges :
            \E es \in [1 .. k -> Triples(0, cnt - 1)] : InitWith(cnt, es)

Spec == Init /\ [][Next]_vars

\* calls with arbitrary endpoints, in and out of range
InitAny == \E cnt \in 0 .. MaxBadN : \E k \in 0 .. MaxBadEdges :
               \E es \in [1 .. k -> Triples(0 - cnt - 1, cnt)] : InitWith(cnt, es)

SpecAny == InitAny /\ [][Next]_vars

----------------------------------------------------------------------------
(* A bare UnionFind driven by arbitrary find and union calls. *)

\* the classes of the equivalence generated by the pairs passed to union:
\* c[x] is the smallest element connected to x; joining a and b merges two classes
Connect(c, a, b) ==
    [x \in DOMAIN c |->
        IF c[x] = c[a] \/ c[x] = c[b]
        THEN IF c[a] < c[b] THEN c[a] ELSE c[b]
        ELSE c[x]]

\* uf = UnionFind(size)
InitDSU ==
    /\ pc = "dsu"
    /\ n \in 0 .. MaxSize
    /\ parent = NewParent(n)
    /\ rank = NewRank(n)
    /\ edges = <<>>
    /\ i = 0
    /\ T = <<>>
    /\ total_weight = 0
    /\ result = <<>>
    /\ last = NoCall
    /\ conn = [x \in 0 .. n - 1 |-> x]

\* uf.find(x)
Find(x) ==
    /\ pc = "dsu"
    /\ \E f \in {FindRes(parent, x)} :
           /\ ~f.err
           /\ parent' = f.parent
           /\ last' = [op |-> "find", a |-> x, b |-> 0, ret |-> f.root]
    /\ UNCHANGED <<pc, n, edges, i, T, total_weight, rank, result, conn>>

\* uf.union(a, b)
Union(a, b) ==
    /\ pc = "dsu"
    /\ \E un \in {UnionRes(parent, rank, a, b)} :
           /\ ~un.err
           /\ parent' = un.parent
           /\ rank' = un.rank
           /\ last' = [op |-> "union", a |-> a, b |-> b, ret |-> un.ret]
    /\ conn' = Connect(conn, a, b)
    /\ UNCHANGED <<pc, n, edges, i, T, total_weight, result>>

NextDSU ==
    \/ \E x \in 0 .. n - 1 : Find(x)
    \/ \E a \in 0 .. n - 1 : \E b \in 0 .. n - 1 : Union(a, b)

SpecDSU == InitDSU /\ [][NextDSU]_vars

----------------------------------------------------------------------------
(* Graph vocabulary used by the properties below.  An edge list es is read *)
(* as an undirected multigraph on the vertices 0 .. n-1; idx selects some  *)
(* of its positions.                                                       *)

Vertices == 0 .. n - 1

Returned == pc \in {"return_early", "return_end"}

RECURSIVE Grow(_, _, _)
Grow(es, idx, S) ==
    LET S2 == S \cup {y \in Vertices :
                        \E k \in idx : \/ es[k][2] \in S /\ es[k][3] = y
                                       \/ es[k][3] \in S /\ es[k][2] = y}
    IN  IF S2 = S THEN S ELSE Grow(es, idx, S2)

\* the vertices reachable from v along the selected edges
Component(es, idx, v) == Grow(es, idx, {v})

Components(es, idx) == {Component(es, idx, v) : v \in Vertices}

All(es) == 1 .. Len(es)

\* one component: every vertex is reachable from vertex 0
Spans(es, idx) == n >= 1 /\ Component(es, idx, 0) = Vertices

Connected(es) == Spans(es, All(es))

\* acyclic: every edge joins two components, so edges = vertices - components
IsForest(es) == Len(es) = n - Cardinality(Components(es, All(es)))

IsSpanningTree(es, idx) ==
    /\ Cardinality(idx) = n - 1
    /\ Spans(es, idx)

RECURSIVE WeightOf(_, _)
WeightOf(es, idx) ==
    IF idx = {} THEN 0
    ELSE LET k == CHOOSE k \in idx : TRUE
         IN  es[k][1] + WeightOf(es, idx \ {k})

\* brute force: the least weight among all spanning trees of es
MinSpanningWeight(es) ==
    LET ws == {WeightOf(es, idx) : idx \in {S \in SUBSET All(es) : IsSpanningTree(es, S)}}
    IN  CHOOSE w \in ws : \A w2 \in ws : w <= w2

\* the root of x's tree, by following parent links only
RECURSIVE Root(_, _)
Root(par, x) == IF par[x] = x THEN x ELSE Root(par, par[x])

\* the nodes on the parent path from x up to and including its root
RECURSIVE PathTo(_, _)
PathTo(par, x) == IF par[x] = x THEN {x} ELSE {x} \cup PathTo(par, par[x])

----------------------------------------------------------------------------
(* Properties. *)

\* C1: for n >= 1 and a connected input graph, kruskal_mst returns exactly
\* n - 1 edges of the input that form one spanning tree, and the returned
\* total weight is the minimum over all spanning trees (brute force).
MstOptimal ==
    (Returned /\ n >= 1 /\ Connected(edges)) =>
        /\ Len(result[1]) = n - 1
        /\ \A k \in All(result[1]) : \E j \in All(edges) : result[1][k] = edges[j]
        /\ IsSpanningTree(result[1], All(result[1]))
        /\ result[2] = MinSpanningWeight(edges)

\* C1 witness: a triangle with unequal weights, returned through the early exit
MstOptimalWitness ==
    /\ pc = "return_early"
    /\ n = 3
    /\ Len(edges) = 3
    /\ {{edges[k][2], edges[k][3]} : k \in 1 .. 3} = {{0, 1}, {1, 2}, {0, 2}}
    /\ edges[1][1] # edges[3][1]

\* C2: the accepted edges always form an acyclic graph, and every edge is
\* appended while its endpoints are in different sets: it is no self-loop and
\* the union call made for it returns true.
AcceptedAcyclic ==
    /\ [](IsForest(T))
    /\ [][Len(T') > Len(T) =>
            LET e == T'[Len(T')]
            IN  /\ e[2] # e[3]
                /\ Root(parent, e[2]) # Root(parent, e[3])
                /\ last'.op = "union"
                /\ last'.ret = TRUE]_vars

\* C2 witness: two edges accepted by union, another one rejected as a cycle
AcceptedAcyclicWitness ==
    /\ Len(T) = 2
    /\ i = 3
    /\ last.op = "union"
    /\ last.ret = TRUE

\* C3: for n >= 2, a disconnected input does not fail; the list is exhausted
\* and the result is a forest with n - (number of components) < n - 1 edges
\* that connects exactly the vertices the input connects; a count below n - 1
\* is returned exactly when the input is disconnected.
SpanningForest ==
    /\ pc # "IndexError"
    /\ (Returned /\ n >= 2) =>
          /\ (Len(result[1]) < n - 1) <=> ~Connected(edges)
          /\ ~Connected(edges) =>
                /\ pc = "return_end"
                /\ i = Len(edges)
                /\ Len(result[1]) = n - Cardinality(Components(edges, All(edges)))
                /\ \A v \in Vertices :
                      Component(result[1], All(result[1]), v) = Component(edges, All(edges), v)

\* C3 witness: three vertices, one isolated, redundant edges between the other two
SpanningForestWitness ==
    /\ pc = "return_end"
    /\ n = 3
    /\ Len(edges) = 3
    /\ Len(result[1]) = 1

\* C4: total_weight is the sum of the weights of the accepted edges after
\* every iteration, and so is the weight of the pair returned on either exit.
WeightIsSum ==
    /\ total_weight = WeightOf(T, All(T))
    /\ Returned => (result = <<T, total_weight>> /\ result[2] = WeightOf(result[1], All(result[1])))

\* C4 witness: a returned tree of two edges of different weights
WeightIsSumWitness ==
    /\ Returned
    /\ Len(T) = 2
    /\ T[1][1] # T[2][1]

ValidEndpoints(es) ==
    \A k \in All(es) : es[k][2] \in Vertices /\ es[k][3] \in Vertices

InvalidIndexFails ==
    pc \in {"loop", "return_early", "return_end"} =>
        \A k \in 1 .. i : /\ edges[k][2] \in Vertices
                          /\ edges[k][3] \in Vertices

\* C7: find(a) == find(b) exactly when a and b are connected by the pairs
\* passed to union so far.
DsuInvariant ==
    pc = "dsu" =>
        \A a \in Vertices : \A b \in Vertices :
            LET fa == FindRes(parent, a)
                fb == FindRes(fa.parent, b)
            IN  (fa.root = fb.root) <=> (conn[a] = conn[b])

\* C7 witness: four elements, two joined through a third, one left alone
DsuInvariantWitness ==
    /\ pc = "dsu"
    /\ n = 4
    /\ \E a \in Vertices : \E b \in Vertices :
          /\ a # b
          /\ conn[a] = conn[b]
          /\ parent[a] # b
          /\ parent[b] # a
    /\ \E c \in Vertices : \A d \in Vertices \ {c} : conn[c] # conn[d]

\* C8: union on two elements of the same set returns false, changes no rank
\* and leaves find(x) the same for every x.
UnionSameSet ==
    [][(last'.op = "union" /\ Root(parent, last'.a) = Root(parent, last'.b)) =>
          /\ last'.ret = FALSE
          /\ rank' = rank
          /\ \A x \in Vertices : FindRes(parent', x).root = FindRes(parent, x).root]_vars

\* C8 witness: a union of two distinct elements has returned false
UnionSameSetWitness ==
    /\ pc = "dsu"
    /\ last.op = "union"
    /\ last.a # last.b
    /\ last.ret = FALSE

\* C9: find(x) returns the root r of x's tree and leaves parent[y] = r for
\* every y on the old path from x to r; every other parent, every rank and
\* the partition are unchanged, and a second find(x) returns r and rewrites
\* nothing.
FindCompresses ==
    [][last'.op = "find" =>
          LET x == last'.a
              r == Root(parent, x)
          IN  /\ last'.ret = r
              /\ parent'[x] = r
              /\ \A y \in PathTo(parent, x) : parent'[y] = r
              /\ \A y \in Vertices \ PathTo(parent, x) : parent'[y] = parent[y]
              /\ rank' = rank
              /\ \A y \in Vertices : Root(parent', y) = Root(parent, y)
              /\ FindRes(parent', x) = [err |-> FALSE, parent |-> parent', root |-> r]]_vars

\* C9 witness: find has answered for a non-root element of a tree of rank 2
FindCompressesWitness ==
    /\ pc = "dsu"
    /\ last.op = "find"
    /\ last.ret # last.a
    /\ rank[last.ret] = 2
    /\ parent[last.a] = last.ret

\* C10 as stated: once the number of accepted edges equals n - 1, no further
\* edge is examined.
StopsAtCount ==
    [][(pc = "loop" /\ Len(T) = n - 1) => (i' = i /\ last' = last)]_vars

\* C10 amended: for n >= 2, the step that brings the accepted sequence to
\* n - 1 edges returns the accumulated pair at once, and from then on no edge
\* is examined and no find or union call is made.
StopsEarly ==
    [][/\ (n >= 2 /\ Len(T') = n - 1 /\ Len(T) # n - 1) =>
              (pc' = "return_early" /\ result' = <<T', total_weight'>>)
       /\ (n >= 2 /\ pc # "start" /\ Len(T) = n - 1) =>
              (i' = i /\ last' = last /\ parent' = parent)]_vars

\* C10 witness: returned early with edges of the list left unexamined
StopsEarlyWitness ==
    /\ pc = "return_early"
    /\ n >= 2
    /\ Len(T) = n - 1
    /\ i < Len(edges)

====
